---------------------------- MODULE Spec2Model ----------------------------
(***************************************************************************)
(* A model of the pokemon gateway in src/src/main.rs: the upstream client  *)
(* Pokedex (new, get_all_pokemon) and the handler Api::pokemon.            *)
(*                                                                         *)
(* Strings are sequences of one-character strings, so that URL parsing,    *)
(* integer parsing and query encoding are computed character by character. *)
(* A u32 is a pair of 16-bit limbs [hi, lo] (value hi * 65536 + lo): the   *)
(* model checker's integers are narrower than a u32.                       *)
(***************************************************************************)
EXTENDS Integers, Sequences, FiniteSets, TLC

(***************************************************************************)
(* Characters and strings                                                  *)
(***************************************************************************)
UpperChars == <<"A","B","C","D","E","F","G","H","I","J","K","L","M","N","O","P","Q","R","S","T","U","V","W","X","Y","Z">>
LowerChars == <<"a","b","c","d","e","f","g","h","i","j","k","l","m","n","o","p","q","r","s","t","u","v","w","x","y","z">>
DigitChars == <<"0","1","2","3","4","5","6","7","8","9">>

Range(s) == {s[k] : k \in DOMAIN s}

IsDigit(c) == c \in Range(DigitChars)
IsAlpha(c) == c \in Range(UpperChars) \cup Range(LowerChars)
DigitVal(c) == (CHOOSE k \in DOMAIN DigitChars : DigitChars[k] = c) - 1

\* char::to_ascii_lowercase
Lower(c) ==
    IF c \in Range(UpperChars)
    THEN LowerChars[CHOOSE k \in DOMAIN UpperChars : UpperChars[k] = c]
    ELSE c
LowerStr(s) == [k \in DOMAIN s |-> Lower(s[k])]

\* Index of the first character of s that is in set, 0 when there is none.
IndexOf(s, set) ==
    IF \E k \in DOMAIN s : s[k] \in set
    THEN CHOOSE k \in DOMAIN s : s[k] \in set /\ \A j \in 1..(k - 1) : s[j] \notin set
    ELSE 0

From(s, k) == SubSeq(s, k, Len(s))
Upto(s, k) == SubSeq(s, 1, k)
Front(s) == SubSeq(s, 1, Len(s) - 1)
Last(s) == s[Len(s)]

\* str::split(sep): the pieces of s between occurrences of sep (never empty).
RECURSIVE Split(_, _)
Split(s, sep) ==
    LET k == IndexOf(s, {sep})
    IN  IF k = 0 THEN <<s>>
        ELSE <<Upto(s, k - 1)>> \o Split(From(s, k + 1), sep)

\* Option<T>
None == [some |-> FALSE]
Some(x) == [some |-> TRUE, v |-> x]

S_http == <<"h","t","t","p">>
S_https == <<"h","t","t","p","s">>
S_file == <<"f","i","l","e">>
S_ftp == <<"f","t","p">>
S_ws == <<"w","s">>
S_wss == <<"w","s","s">>
S_pokemon == <<"p","o","k","e","m","o","n">>
S_limit == <<"l","i","m","i","t">>
S_offset == <<"o","f","f","s","e","t">>

\* src/src/main.rs:13
BASE_POKEMONAPI_ADDRESS == <<"h","t","t","p","s",":","/","/","p","o","k","e","a","p","i",".","c","o","/","a","p","i","/","v","2","/">>

(***************************************************************************)
(* u32: two 16-bit limbs                                                   *)
(***************************************************************************)
Limb == 65536

U32(hi, lo) == [hi |-> hi, lo |-> lo]
IsU32(n) == n.hi \in 0..(Limb - 1) /\ n.lo \in 0..(Limb - 1)
U32Max == U32(Limb - 1, Limb - 1)
SmallU32(n) == U32(0, n)

\* Variant: wrapping arithmetic in place of the checked one, so a value past
\* u32::MAX is reduced modulo 2^32.
RECURSIVE ParseDigitsU32Wrapping(_, _, _)
ParseDigitsU32Wrapping(s, k, acc) ==
    IF k > Len(s) THEN [ok |-> TRUE, v |-> acc]
    ELSE IF ~IsDigit(s[k]) THEN [ok |-> FALSE, err |-> "InvalidDigit"]
    ELSE LET lo == acc.lo * 10 + DigitVal(s[k])
             hi == acc.hi * 10 + (lo \div Limb)
         IN  ParseDigitsU32Wrapping(s, k + 1, U32(hi % Limb, lo % Limb))

\* <u32 as FromStr>::from_str, i.e. u32::from_str_radix(s, 10): an optional
\* leading '+', then one or more decimal digits, accumulated with checked
\* multiplication and addition (PosOverflow past u32::MAX).
RECURSIVE ParseDigitsU32(_, _, _)
ParseDigitsU32(s, k, acc) ==
    IF k > Len(s) THEN [ok |-> TRUE, v |-> acc]
    ELSE IF ~IsDigit(s[k]) THEN [ok |-> FALSE, err |-> "InvalidDigit"]
    ELSE LET lo == acc.lo * 10 + DigitVal(s[k])
             hi == acc.hi * 10 + (lo \div Limb)
         IN  IF hi >= Limb THEN [ok |-> FALSE, err |-> "PosOverflow"]
             ELSE ParseDigitsU32(s, k + 1, U32(hi, lo % Limb))

ParseU32(s) ==
    IF s = <<>> THEN [ok |-> FALSE, err |-> "Empty"]
    ELSE IF Len(s) = 1 /\ s[1] \in {"+", "-"} THEN [ok |-> FALSE, err |-> "InvalidDigit"]
    ELSE IF s[1] = "+" THEN ParseDigitsU32(s, 2, U32(0, 0))
    ELSE ParseDigitsU32(s, 1, U32(0, 0))

\* <u32 as Display>::fmt: the decimal digits, most significant first, no
\* leading zeros ("0" for zero).
RECURSIVE ToDecimal(_)
ToDecimal(n) ==
    LET q1 == n.hi \div 10
        r1 == n.hi % 10
        mid == r1 * Limb + n.lo
        q == U32(q1, mid \div 10)
        d == DigitChars[(mid % 10) + 1]
    IN  IF n.hi = 0 /\ n.lo < 10 THEN <<d>>
        ELSE ToDecimal(q) \o <<d>>

(***************************************************************************)
(* reqwest::Url (url::Url): parsing, path_segments, join                   *)
(*                                                                         *)
(* The parser is modelled for inputs over letters, digits and the          *)
(* characters  : / ? # . + - = & and space (no userinfo, no IPv6 literal,  *)
(* no percent sign, no backslash, no '|', no punycode label).  The path    *)
(* state works on the serialized path, as the crate does.                  *)
(***************************************************************************)
ParseError == [ok |-> FALSE]

SpecialSchemes == {S_http, S_https, S_ftp, S_ws, S_wss, S_file}
SchemeChars == Range(UpperChars) \cup Range(LowerChars) \cup Range(DigitChars) \cup {"+", "-", "."}
\* The modelled characters that are not forbidden host code points.
HostChars == Range(UpperChars) \cup Range(LowerChars) \cup Range(DigitChars) \cup {"-", ".", "+", "=", "&"}
HexChars == <<"0", "1", "2", "3", "4", "5", "6", "7", "8", "9", "a", "b", "c", "d", "e", "f">>

\* The input with leading and trailing spaces removed.
RECURSIVE Trim(_)
Trim(s) ==
    IF s = <<>> THEN s
    ELSE IF s[1] = " " THEN Trim(From(s, 2))
    ELSE IF Last(s) = " " THEN Trim(Front(s))
    ELSE s

\* The scheme state: an ASCII letter, then letters, digits, '+', '-', '.',
\* up to the first ':'.
SchemeOk(s, colon) ==
    /\ colon > 1
    /\ IsAlpha(s[1])
    /\ \A k \in 1..(colon - 1) : s[k] \in SchemeChars

\* Percent-encoding with the path, query or fragment set: of the modelled
\* characters only the space is in these sets.
RECURSIVE PercentEncode(_)
PercentEncode(s) ==
    IF s = <<>> THEN s
    ELSE (IF s[1] = " " THEN <<"%", "2", "0">> ELSE <<s[1]>>) \o PercentEncode(From(s, 2))

\* Splits what follows the scheme into body, query ('?' up to '#') and
\* fragment (after '#'); query and fragment are stored percent-encoded.
SplitTail(rest) ==
    LET h == IndexOf(rest, {"#"})
        noFrag == IF h = 0 THEN rest ELSE Upto(rest, h - 1)
        q == IndexOf(noFrag, {"?"})
    IN  [body |-> IF q = 0 THEN noFrag ELSE Upto(noFrag, q - 1),
         query |-> IF q = 0 THEN None ELSE Some(PercentEncode(From(noFrag, q + 1))),
         fragment |-> IF h = 0 THEN None ELSE Some(PercentEncode(From(rest, h + 1)))]

RECURSIVE SkipSlashes(_)
SkipSlashes(s) ==
    IF s # <<>> /\ s[1] = "/" THEN SkipSlashes(From(s, 2)) ELSE s

RECURSIVE JoinWith(_, _)
JoinWith(parts, sep) ==
    IF parts = <<>> THEN <<>>
    ELSE IF Len(parts) = 1 THEN parts[1]
    ELSE parts[1] \o <<sep>> \o JoinWith(From(parts, 2), sep)

EndsWith(s, c) == s # <<>> /\ Last(s) = c

\* str::rfind: the last position of c in s, 0 when there is none.
LastIndexOf(s, c) ==
    IF \E k \in DOMAIN s : s[k] = c
    THEN CHOOSE k \in DOMAIN s : s[k] = c /\ \A j \in DOMAIN s : j > k => s[j] # c
    ELSE 0

\* Windows drive letters: a letter and ':' (the '|' form is outside the
\* modelled characters), so a drive letter is already normalized.
IsWindowsDriveLetter(s) == Len(s) = 2 /\ IsAlpha(s[1]) /\ s[2] = ":"

StartsWithWindowsDriveLetter(s) ==
    /\ Len(s) >= 2
    /\ IsAlpha(s[1])
    /\ s[2] = ":"
    /\ (Len(s) = 2 \/ s[3] \in {"/", "?", "#"})

PathStartsWithWindowsDriveLetter(s) ==
    s # <<>> /\ s[1] \in {"/", "?", "#"} /\ StartsWithWindowsDriveLetter(From(s, 2))

\* Parser::last_slash_can_be_removed on a serialized path p ending in '/':
\* not the root slash, and not the slash after a drive letter.
LastSlashCanBeRemoved(p) ==
    LET k == LastIndexOf(Front(p), "/")
    IN  k # 0 /\ ~PathStartsWithWindowsDriveLetter(From(p, k))

\* Parser::pop_path: cut after the last '/', unless what follows it is a
\* drive letter of a file URL.
PopPath(p, isFile) ==
    IF p = <<>> THEN p
    ELSE LET k == LastIndexOf(p, "/")
         IN  IF isFile /\ IsWindowsDriveLetter(From(p, k + 1)) THEN p ELSE Upto(p, k)

\* Parser::shorten_path.
ShortenPath(p, isFile) ==
    IF p = <<>> THEN p
    ELSE IF isFile /\ IsWindowsDriveLetter(p) THEN p
    ELSE PopPath(p, isFile)

\* Parser::parse_path, the "." arm: the segment is dropped.
SingleDot(cut, hasHost) ==
    [path |-> IF EndsWith(cut, "/") THEN cut ELSE cut \o <<"/">>, hasHost |-> hasHost]

\* Parser::parse_path, the ".." arm, once the path is shortened.
Shortened(path, endsWithSlash, hasHost) ==
    [path |-> IF endsWithSlash /\ ~EndsWith(path, "/") THEN path \o <<"/">> ELSE path,
     hasHost |-> hasHost]

\* Parser::parse_path, the ".." arm: the slash before the segment goes when
\* it can, then the path is shortened.
DoubleDot(cut, endsWithSlash, isFile, hasHost) ==
    Shortened(ShortenPath(IF EndsWith(cut, "/") /\ LastSlashCanBeRemoved(cut)
                          THEN Front(cut) ELSE cut,
                          isFile),
              endsWithSlash, hasHost)

\* Parser::parse_path, the match on the segment just read: full is the
\* serialized path with the segment (and the '/' after it), cut the path
\* before the segment.  A drive letter as the first segment of a file URL
\* clears the host.
SegmentArm(full, segment, cut, segmentStart, endsWithSlash, isFile, hasHost) ==
    IF segment = <<".", ".">> THEN DoubleDot(cut, endsWithSlash, isFile, hasHost)
    ELSE IF segment = <<".">> THEN SingleDot(cut, hasHost)
    ELSE [path |-> full,
          hasHost |-> hasHost /\ ~(isFile /\ segmentStart = 1 /\ IsWindowsDriveLetter(segment))]

\* Parser::parse_path, after its inner loop: the segment is what follows
\* segment_start, without the '/' that ended it.
SegmentRead(full, segmentStart, endsWithSlash, isFile, hasHost) ==
    SegmentArm(full,
               SubSeq(full, segmentStart + 1, IF endsWithSlash THEN Len(full) - 1 ELSE Len(full)),
               Upto(full, segmentStart),
               segmentStart, endsWithSlash, isFile, hasHost)

\* Parser::parse_path, its inner loop: the piece is pushed percent-encoded
\* (and the '/' that ends it).  driveRun: the path of a file URL is "/X:"
\* when the first character of the piece arrives; a '/' is pushed before the
\* piece and segment_start moves by one.
PushPiece(p, piece, endsWithSlash, isFile, hasHost, driveRun) ==
    SegmentRead(p \o (IF driveRun THEN <<"/">> ELSE <<>>)
                  \o PercentEncode(piece)
                  \o (IF endsWithSlash THEN <<"/">> ELSE <<>>),
                IF driveRun THEN Len(p) + 1 ELSE Len(p),
                endsWithSlash, isFile, hasHost)

\* One round of Parser::parse_path's outer loop.  Within a piece nothing is
\* inserted: "C:a" stays one segment.
PathStep(p, piece, endsWithSlash, isFile, hasHost) ==
    PushPiece(p, piece, endsWithSlash, isFile, hasHost,
              isFile /\ piece # <<>> /\ p # <<>> /\ IsWindowsDriveLetter(From(p, 2)))

RECURSIVE PathLoop(_, _, _, _)
PathLoop(state, pieces, k, isFile) ==
    IF k > Len(pieces) THEN state
    ELSE PathLoop(PathStep(state.path, pieces[k], k < Len(pieces), isFile, state.hasHost),
                  pieces, k + 1, isFile)

\* Parser::parse_path, after its outer loop: a file URL loses the empty
\* segments at the front of its path.
PathEnd(state, isFile) ==
    IF isFile THEN [path |-> <<"/">> \o SkipSlashes(state.path), hasHost |-> state.hasHost]
    ELSE state

\* Parser::parse_path: input is read onto the serialized path p.
ParsePath(p, input, isFile, hasHost) ==
    PathEnd(PathLoop([path |-> p, hasHost |-> hasHost], Split(input, "/"), 1, isFile), isFile)

\* The segments of a serialized path that is empty or starts with '/'.  The
\* path "/" is one empty segment; the empty path has no segments.
Segments(p) == IF p = <<>> THEN <<>> ELSE Split(From(p, 2), "/")

\* Url::path of a URL that can be a base.
PathString(segments) ==
    IF segments = <<>> THEN <<>> ELSE <<"/">> \o JoinWith(segments, "/")

\* u32::from_str_radix on a string of valid digits of the radix.
RECURSIVE ParseRadixU32(_, _, _, _)
ParseRadixU32(s, k, radix, acc) ==
    IF k > Len(s) THEN Some(acc)
    ELSE LET d == (CHOOSE j \in DOMAIN HexChars : HexChars[j] = Lower(s[k])) - 1
             lo == acc.lo * radix + d
             hi == acc.hi * radix + (lo \div Limb)
         IN  IF hi >= Limb THEN None
             ELSE ParseRadixU32(s, k + 1, radix, U32(hi, lo % Limb))

\* host::parse_ipv4number: "0x" starts a hexadecimal number, another leading
\* '0' an octal one.  Err(()) is [ok |-> FALSE]; Ok(None) is a number past
\* u32::MAX.
ParseIpv4Number(input) ==
    LET hex == Len(input) >= 2 /\ input[1] = "0" /\ input[2] \in {"x", "X"}
        oct == ~hex /\ Len(input) >= 2 /\ input[1] = "0"
        radix == IF hex THEN 16 ELSE IF oct THEN 8 ELSE 10
        digits == IF hex THEN From(input, 3) ELSE IF oct THEN From(input, 2) ELSE input
        valid == \A k \in DOMAIN digits :
                     \E j \in 1..radix : HexChars[j] = Lower(digits[k])
    IN  IF input = <<>> THEN [ok |-> FALSE]
        ELSE IF digits = <<>> THEN [ok |-> TRUE, v |-> Some(U32(0, 0))]
        ELSE IF ~valid THEN [ok |-> FALSE]
        ELSE [ok |-> TRUE, v |-> ParseRadixU32(digits, 1, radix, U32(0, 0))]

\* host::ends_in_a_number: the last label of the host (the one before a
\* trailing '.') is made of decimal digits or is an IPv4 number.
LastLabelIsNumber(parts) ==
    LET n == Len(parts)
        last == IF parts[n] # <<>> THEN parts[n]
                ELSE IF n > 1 THEN parts[n - 1] ELSE <<>>
    IN  /\ ~(parts[n] = <<>> /\ n = 1)
        /\ \/ (last # <<>> /\ \A k \in DOMAIN last : IsDigit(last[k]))
           \/ ParseIpv4Number(last).ok

EndsInANumber(host) == LastLabelIsNumber(Split(host, "."))

\* host::parse_ipv4addr on the parsed parts, and the dotted-decimal form of
\* the address: every part a number, all but the last at most 255, the last
\* filling the remaining bytes.
Ipv4Address(nums) ==
    LET n == Len(nums)
        last == nums[n].v.v
        lastBytes == <<last.hi \div 256, last.hi % 256, last.lo \div 256, last.lo % 256>>
        bytes == [j \in 1..4 |-> lastBytes[j] + (IF j < n THEN nums[j].v.v.lo ELSE 0)]
    IN  IF \E k \in 1..n : ~nums[k].ok \/ ~nums[k].v.some THEN [ok |-> FALSE]
        ELSE IF \E j \in 1..(n - 1) : lastBytes[j] # 0 THEN [ok |-> FALSE]
        ELSE IF \E k \in 1..(n - 1) : nums[k].v.v.hi # 0 \/ nums[k].v.v.lo > 255 THEN [ok |-> FALSE]
        ELSE [ok |-> TRUE,
              v |-> JoinWith([j \in 1..4 |-> ToDecimal(SmallU32(bytes[j]))], ".")]

\* host::parse_ipv4addr on the '.'-separated parts: at most four.
Ipv4Parts(parts) ==
    IF parts = <<>> \/ Len(parts) > 4 THEN [ok |-> FALSE]
    ELSE Ipv4Address([k \in DOMAIN parts |-> ParseIpv4Number(parts[k])])

\* host::parse_ipv4addr: an empty last part is dropped first.
ParseIpv4Addr(host) ==
    Ipv4Parts(IF Last(Split(host, ".")) = <<>> THEN Front(Split(host, ".")) ELSE Split(host, "."))

\* Host::parse on the domain in lower case: no forbidden code point, and an
\* IPv4 address when the host ends in a number.
ParseDomain(domain) ==
    IF \E k \in DOMAIN domain : domain[k] \notin HostChars THEN [ok |-> FALSE]
    ELSE IF EndsInANumber(domain) THEN ParseIpv4Addr(domain)
    ELSE [ok |-> TRUE, v |-> domain]

\* Host::parse, for special schemes: the domain is put in lower case (the
\* effect of domain_to_ascii on the modelled characters).
ParseHost(input) == ParseDomain(LowerStr(input))

\* Host::parse_opaque, for the other schemes: the host as written.
ParseOpaqueHost(input) ==
    IF \E k \in DOMAIN input : input[k] \notin HostChars THEN [ok |-> FALSE]
    ELSE [ok |-> TRUE, v |-> input]

\* The port state: decimal digits, at most 65535; an empty port is no port.
RECURSIVE ParsePort(_, _, _)
ParsePort(s, k, acc) ==
    IF k > Len(s) THEN [ok |-> TRUE, v |-> acc]
    ELSE IF ~IsDigit(s[k]) THEN [ok |-> FALSE]
    ELSE IF acc * 10 + DigitVal(s[k]) >= Limb THEN [ok |-> FALSE]
    ELSE ParsePort(s, k + 1, acc * 10 + DigitVal(s[k]))

DefaultPort(scheme) ==
    IF scheme \in {S_http, S_ws} THEN Some(80)
    ELSE IF scheme \in {S_https, S_wss} THEN Some(443)
    ELSE IF scheme = S_ftp THEN Some(21)
    ELSE None

\* The authority, once its host and port are parsed.  A special scheme needs
\* a non-empty host; another scheme may have an empty authority, which is no
\* host.
Authority(scheme, hostStr, portStr, hasColon, host, port) ==
    IF hostStr = <<>> /\ (scheme \in SpecialSchemes \/ hasColon) THEN [ok |-> FALSE]
    ELSE IF ~host.ok THEN [ok |-> FALSE]
    ELSE IF ~port.ok THEN [ok |-> FALSE]
    ELSE [ok |-> TRUE,
          host |-> IF hostStr = <<>> THEN None ELSE Some(host.v),
          port |-> IF portStr = <<>> \/ Some(port.v) = DefaultPort(scheme)
                   THEN None ELSE Some(port.v)]

\* host[:port], split at the first ':'.
HostAndPort(scheme, hostStr, portStr, hasColon) ==
    Authority(scheme, hostStr, portStr, hasColon,
              IF scheme \in SpecialSchemes THEN ParseHost(hostStr) ELSE ParseOpaqueHost(hostStr),
              ParsePort(portStr, 1, 0))

ParseAuthority(scheme, authority) ==
    LET c == IndexOf(authority, {":"})
    IN  HostAndPort(scheme,
                    IF c = 0 THEN authority ELSE Upto(authority, c - 1),
                    IF c = 0 THEN <<>> ELSE From(authority, c + 1),
                    c # 0)

MakeUrl(scheme, cab, host, port, path, opaque, tail) ==
    [ok |-> TRUE, scheme |-> scheme, cannot_be_a_base |-> cab,
     host |-> host, port |-> port, path |-> path, opaque |-> opaque,
     query |-> tail.query, fragment |-> tail.fragment]

\* A special URL once its authority is parsed: the path is at least "/".
SpecialUrl(scheme, a, remaining, tail) ==
    IF ~a.ok THEN ParseError
    ELSE MakeUrl(scheme, FALSE, a.host, a.port,
                 Segments(ParsePath(<<"/">>, remaining, FALSE, TRUE).path), <<>>, tail)

\* The authority of a special URL ends at the first '/'.
SpecialAuthority(scheme, b, slash, tail) ==
    SpecialUrl(scheme,
               ParseAuthority(scheme, IF slash = 0 THEN b ELSE Upto(b, slash - 1)),
               IF slash = 0 THEN <<>> ELSE From(b, slash + 1),
               tail)

\* What follows any number of slashes of a special URL.
SpecialAfterSlashes(scheme, b, tail) == SpecialAuthority(scheme, b, IndexOf(b, {"/"}), tail)

\* http, https, ws, wss, ftp: any number of slashes, then a non-empty host,
\* then a path.
ParseSpecial(scheme, tail) == SpecialAfterSlashes(scheme, SkipSlashes(tail.body), tail)

\* A file URL once its path is parsed: the host is dropped when the path
\* starts with a drive letter.
FileUrl(host, parsed, tail) ==
    MakeUrl(S_file, FALSE, IF parsed.hasHost THEN host ELSE None, None,
            Segments(parsed.path), <<>>, tail)

\* A file URL once its host is parsed: "localhost" is no host.
FileWithHost(host, remaining, tail) ==
    IF ~host.ok THEN ParseError
    ELSE IF host.v = <<"l","o","c","a","l","h","o","s","t">>
    THEN FileUrl(None, ParsePath(<<"/">>, remaining, TRUE, FALSE), tail)
    ELSE FileUrl(Some(host.v),
                 ParsePath(<<"/">>, IF remaining # <<>> THEN From(remaining, 2) ELSE remaining,
                           TRUE, TRUE),
                 tail)

\* Parser::parse_file after Parser::file_host: an empty host is no host.
FileAfterHost(hostStr, remaining, tail) ==
    IF hostStr = <<>> THEN FileUrl(None, ParsePath(<<"/">>, remaining, TRUE, FALSE), tail)
    ELSE FileWithHost(ParseHost(hostStr), remaining, tail)

\* Parser::file_host: the host ends at the first '/'; a drive letter is not
\* a host, and the path then starts at it.
FileHost(input, fileHost, slash, tail) ==
    IF IsWindowsDriveLetter(fileHost) THEN FileAfterHost(<<>>, input, tail)
    ELSE FileAfterHost(fileHost, IF slash = 0 THEN <<>> ELSE From(input, slash), tail)

FileHostState(input, slash, tail) ==
    FileHost(input, IF slash = 0 THEN input ELSE Upto(input, slash - 1), slash, tail)

\* Parser::parse_file without a base URL: after "//" comes a host, after a
\* single '/' or none comes a path.
FileBody(b, tail) ==
    IF Len(b) >= 2 /\ b[1] = "/" /\ b[2] = "/"
    THEN FileHostState(From(b, 3), IndexOf(From(b, 3), {"/"}), tail)
    ELSE IF b # <<>> /\ b[1] = "/"
    THEN FileUrl(None, ParsePath(<<>>, b, TRUE, FALSE), tail)
    ELSE FileUrl(None, ParsePath(<<"/">>, b, TRUE, FALSE), tail)

ParseFile(tail) == FileBody(tail.body, tail)

\* A URL of another scheme once its authority is parsed: the path may be
\* empty.
NonSpecialUrl(scheme, a, remaining, tail) ==
    IF ~a.ok THEN ParseError
    ELSE MakeUrl(scheme, FALSE, a.host, a.port,
                 Segments(ParsePath(<<>>, remaining, FALSE, TRUE).path), <<>>, tail)

\* The authority of such a URL ends at the first '/'.
NonSpecialAuthority(scheme, input, slash, tail) ==
    NonSpecialUrl(scheme,
                  ParseAuthority(scheme, IF slash = 0 THEN input ELSE Upto(input, slash - 1)),
                  IF slash = 0 THEN <<>> ELSE From(input, slash),
                  tail)

\* "//authority path", "/path", or an opaque path (the URL cannot be a
\* base), which keeps its spaces.
NonSpecialBody(scheme, b, tail) ==
    IF Len(b) >= 2 /\ b[1] = "/" /\ b[2] = "/"
    THEN NonSpecialAuthority(scheme, From(b, 3), IndexOf(From(b, 3), {"/"}), tail)
    ELSE IF b # <<>> /\ b[1] = "/"
    THEN MakeUrl(scheme, FALSE, None, None,
                 Segments(ParsePath(<<>>, b, FALSE, FALSE).path), <<>>, tail)
    ELSE MakeUrl(scheme, TRUE, None, None, <<>>, b, tail)

\* Any other scheme.
ParseNonSpecial(scheme, tail) == NonSpecialBody(scheme, tail.body, tail)

\* Parser::parse_with_scheme, after the scheme: the state the scheme selects.
ParseWithScheme(scheme, tail) ==
    IF scheme = S_file THEN ParseFile(tail)
    ELSE IF scheme \in SpecialSchemes THEN ParseSpecial(scheme, tail)
    ELSE ParseNonSpecial(scheme, tail)

\* Parser::parse_url: no base URL, so an input without a scheme is an error
\* (RelativeUrlWithoutBase).  The scheme is stored in lower case.
ParseScheme(s, colon) ==
    IF ~SchemeOk(s, colon) THEN ParseError
    ELSE ParseWithScheme(LowerStr(Upto(s, colon - 1)), SplitTail(From(s, colon + 1)))

ParseUrl(s) == ParseScheme(s, IndexOf(s, {":"}))

\* Url::parse / str::parse::<Url> / Url::try_from(&str).
UrlParse(input) == ParseUrl(Trim(input))

\* Url::path_segments: None when the URL cannot be a base (or its path does
\* not start with '/'), else the '/'-separated pieces of the path after the
\* leading '/'.
PathSegments(url) ==
    IF url.cannot_be_a_base \/ url.path = <<>> THEN None ELSE Some(url.path)

\* Url::join, once the base's path has lost what follows its last '/': the
\* reference is read onto it, and the base's query and fragment are dropped.
JoinOnto(base, popped, rel, isFile) ==
    [base EXCEPT
        !.path = Segments(ParsePath(IF popped = <<>> /\ (base.scheme \in SpecialSchemes \/ rel # <<>>)
                                    THEN <<"/">> ELSE popped,
                                    rel, isFile, TRUE).path),
        !.query = None,
        !.fragment = None]

\* Url::join with a relative reference that is a path without a leading '/'.
UrlJoin(base, rel) ==
    JoinOnto(base, PopPath(PathString(base.path), base.scheme = S_file), rel, base.scheme = S_file)


(***************************************************************************)
(* mod pokemon_api: the upstream client                                    *)
(***************************************************************************)
Ok(x) == [ok |-> TRUE, v |-> x]
Err(e) == [ok |-> FALSE, err |-> e]

\* Variant: the scheme check left out.
PokedexNewAnyScheme(base) ==
    LET url == UrlParse(base)
    IN  IF ~url.ok THEN Err("InvalidBaseUrl")
        ELSE IF url.cannot_be_a_base THEN Err("InvalidBaseUrl")
        ELSE Ok([base |-> url])

\* Pokedex::new after Url::try_from(base): the URL must be able to be a base
\* and its scheme http or https.
CheckBase(url) ==
    IF ~url.ok THEN Err("InvalidBaseUrl")
    ELSE IF url.cannot_be_a_base THEN Err("InvalidBaseUrl")
    ELSE IF url.scheme # S_http /\ url.scheme # S_https THEN Err("InvalidBaseUrl")
    ELSE Ok([base |-> url])

\* Pokedex::new (the reqwest::Client it also builds carries no state the
\* handler reads).
PokedexNew(base) == CheckBase(UrlParse(base))

\* RequestBuilder::query(&[("limit", limit), ("offset", offset)]): the pairs
\* as key=value joined by '&' (serde_urlencoded; the keys and decimal values
\* need no escaping).
RECURSIVE EncodeQuery(_)
EncodeQuery(pairs) ==
    IF pairs = <<>> THEN <<>>
    ELSE pairs[1][1] \o <<"=">> \o ToDecimal(pairs[1][2])
         \o (IF Len(pairs) = 1 THEN <<>> ELSE <<"&">> \o EncodeQuery(From(pairs, 2)))

\* Pokedex::get_all_pokemon up to send(): the GET request it issues.
GetAllPokemonRequest(self, limit, offset) ==
    LET url == UrlJoin(self.base, S_pokemon)
    IN  [method |-> "GET",
         url |-> [url EXCEPT !.query = Some(EncodeQuery(<<<<S_limit, limit>>, <<S_offset, offset>>>>))]]

\* What send().await can produce: an error (no connection, a broken
\* exchange), or a response of which the status is known
\* and the body is not read yet.  What json().await then makes of the body:
\* an error (the body cannot be read, or does not decode as a PokemonList),
\* or the list, of which the handler reads only results.
TransportFailure == [kind |-> "transport"]
HttpResponse(status, body) == [kind |-> "response", status |-> status, body |-> body]
NotRead == [read |-> FALSE, decodes |-> FALSE, results |-> <<>>]
Undecodable == [read |-> TRUE, decodes |-> FALSE, results |-> <<>>]
ListBody(results) == [read |-> TRUE, decodes |-> TRUE, results |-> results]

\* Variant: only server errors are errors.
ErrorForStatusServerOnly(status) == status \in 500..599

\* Response::error_for_status: an error for a client or server error status
\* (400..599), the response itself for every other status.
ErrorForStatus(status) == status \in 400..599

\* Pokedex::get_all_pokemon when send().await completes: `?` on the error,
\* then error_for_status()?.
SendResult(sent) ==
    IF sent.kind = "transport" THEN Err("HttpRequestError")
    ELSE IF ErrorForStatus(sent.status) THEN Err("HttpRequestError")
    ELSE Ok(sent)

\* Pokedex::get_all_pokemon when json().await completes: `?` on the error,
\* then Ok(response).
JsonResult(body) ==
    IF ~body.decodes THEN Err("HttpRequestError")
    ELSE Ok([results |-> body.results])

(***************************************************************************)
(* Api::pokemon: the handler                                               *)
(***************************************************************************)
DefaultLimit == 20
DefaultOffset == 0

\* Option::unwrap_or
UnwrapOr(opt, default) == IF opt.some THEN opt.v ELSE default

\* Variant: the limit clamped to 100.
FetchArgsClamped(limit, offset) ==
    LET l == UnwrapOr(limit, SmallU32(DefaultLimit))
    IN  [limit |-> IF l.hi > 0 \/ l.lo > 100 THEN SmallU32(100) ELSE l,
         offset |-> UnwrapOr(offset, SmallU32(DefaultOffset))]

\* The arguments of pokedex.get_all_pokemon(limit.unwrap_or(20), offset.unwrap_or(0)).
FetchArgs(limit, offset) ==
    [limit |-> UnwrapOr(limit, SmallU32(DefaultLimit)),
     offset |-> UnwrapOr(offset, SmallU32(DefaultOffset))]

\* The closure mapped over the upstream records, after last_segment.parse():
\* the id, or InvalidUrlInResponse.
ExtractId(i, id) ==
    IF ~id.ok THEN Err("InvalidUrlInResponse")
    ELSE Ok([id |-> id.v, name |-> i.name])

\* The closure, after url.path_segments(): the last segment is parsed as u32.
ExtractLastSegment(i, segments) ==
    IF ~segments.some THEN Err("InvalidUrlInResponse")
    ELSE IF segments.v = <<>> THEN Err("InvalidUrlInResponse")
    ELSE ExtractId(i, ParseU32(Last(segments.v)))

\* The closure, after i.url.parse().
ExtractFromUrl(i, url) ==
    IF ~url.ok THEN Err("InvalidUrlInResponse")
    ELSE ExtractLastSegment(i, PathSegments(url))

\* The closure mapped over the upstream records.
ExtractPokemon(i) == ExtractFromUrl(i, UrlParse(i.url))

\* Variant: records that fail extraction are skipped (a filter_map).
RECURSIVE CollectPokemonSkipping(_, _, _)
CollectPokemonSkipping(data, k, acc) ==
    IF k > Len(data) THEN Ok(acc)
    ELSE LET r == ExtractPokemon(data[k])
         IN  CollectPokemonSkipping(data, k + 1, IF r.ok THEN Append(acc, r.v) ELSE acc)

\* Variant: the items are collected in reverse order.
RECURSIVE CollectPokemonReversed(_, _, _)
CollectPokemonReversed(data, k, acc) ==
    IF k > Len(data) THEN Ok(acc)
    ELSE LET r == ExtractPokemon(data[k])
         IN  IF ~r.ok THEN Err(r.err)
             ELSE CollectPokemonReversed(data, k + 1, <<r.v>> \o acc)

RECURSIVE CollectPokemon(_, _, _)

\* collect::<Result<Vec<Pokemon>, _>>() on one item: the first error ends
\* the collection, a value is pushed.
CollectItem(data, k, acc, r) ==
    IF ~r.ok THEN Err(r.err)
    ELSE CollectPokemon(data, k + 1, Append(acc, r.v))

\* data.drain(..).map(closure).collect::<Result<Vec<Pokemon>, _>>(): the
\* items in order, or the first error.
CollectPokemon(data, k, acc) ==
    IF k > Len(data) THEN Ok(acc)
    ELSE CollectItem(data, k, acc, ExtractPokemon(data[k]))

\* PokemonListResponse
ResponseOk(items) == [status |-> 200, body |-> Some(items)]
InternalServerError == [status |-> 500, body |-> None]

\* The match on the collected result.
CollectedResponse(result) ==
    IF result.ok THEN ResponseOk(result.v) ELSE InternalServerError

\* The handler once get_all_pokemon has returned: the match on its result.
PokemonResponse(fetched) ==
    IF fetched.ok THEN CollectedResponse(CollectPokemon(fetched.v.results, 1, <<>>))
    ELSE InternalServerError


(***************************************************************************)
(* Inputs                                                                  *)
(***************************************************************************)
\* Longest upstream page, and the number of handler invocations that can be
\* in progress at once.
MaxPageLen == 2
MaxInv == 2

Inv == 1..MaxInv

\* Reference URLs of upstream records.
Ref_1_slash == <<"h","t","t","p","s",":","/","/","p","o","k","e","a","p","i",".","c","o","/","a","p","i","/","v","2","/","p","o","k","e","m","o","n","/","1","/">>
Ref_2_slash == <<"h","t","t","p","s",":","/","/","p","o","k","e","a","p","i",".","c","o","/","a","p","i","/","v","2","/","p","o","k","e","m","o","n","/","2","/">>
Ref_25 == <<"h","t","t","p","s",":","/","/","p","o","k","e","a","p","i",".","c","o","/","a","p","i","/","v","2","/","p","o","k","e","m","o","n","/","2","5">>
Ref_007 == <<"h","t","t","p","s",":","/","/","p","o","k","e","a","p","i",".","c","o","/","a","p","i","/","v","2","/","p","o","k","e","m","o","n","/","0","0","7">>
Ref_abc == <<"h","t","t","p","s",":","/","/","p","o","k","e","a","p","i",".","c","o","/","a","p","i","/","v","2","/","p","o","k","e","m","o","n","/","a","b","c">>
Ref_u32max == <<"h","t","t","p","s",":","/","/","p","o","k","e","a","p","i",".","c","o","/","a","p","i","/","v","2","/","p","o","k","e","m","o","n","/","4","2","9","4","9","6","7","2","9","5">>
Ref_u32over == <<"h","t","t","p","s",":","/","/","p","o","k","e","a","p","i",".","c","o","/","a","p","i","/","v","2","/","p","o","k","e","m","o","n","/","4","2","9","4","9","6","7","2","9","6">>
Ref_not_a_url == <<"n","o","t"," ","a"," ","u","r","l">>
Ref_mailto == <<"m","a","i","l","t","o",":","2","5">>
Ref_numeric_label == <<"h","t","t","p","s",":","/","/","a",".","1","/","2","5">>
Ref_drive_piece == <<"f","i","l","e",":","/","C",":","2","5">>
RefUrls == {Ref_1_slash, Ref_2_slash, Ref_25, Ref_007, Ref_abc, Ref_u32max, Ref_u32over, Ref_not_a_url, Ref_mailto, Ref_numeric_label, Ref_drive_piece}

S_bulbasaur == <<"b","u","l","b","a","s","a","u","r">>
S_ivysaur == <<"i","v","y","s","a","u","r">>
Names == {S_bulbasaur, S_ivysaur}

Records == [url : RefUrls, name : Names]
Pages == UNION {[1..n -> Records] : n \in 0..MaxPageLen}

Statuses == {200, 299, 300, 404, 599}
Sents == {TransportFailure} \cup {HttpResponse(st, NotRead) : st \in Statuses}
Bodies == {Undecodable} \cup {ListBody(p) : p \in Pages}

\* The query parameters of an inbound request: Option<u32>.
Limits == {None, Some(SmallU32(0)), Some(SmallU32(7)), Some(SmallU32(DefaultLimit)), Some(U32Max)}
Offsets == {None, Some(SmallU32(0)), Some(SmallU32(7)), Some(U32Max)}

\* Base strings handed to Pokedex::new: scheme ':' rest.
BaseSchemes == {<<"h","t","t","p","s">>, <<"h","t","t","p">>, <<"H","T","T","P">>, <<"f","t","p">>, <<"f","i","l","e">>, <<"w","s">>, <<"m","a","i","l","t","o">>, <<"x","-","y">>, <<"1","h","t","t","p">>, <<>>}
BaseRests == {
    <<"/","/","p","o","k","e","a","p","i",".","c","o","/","a","p","i","/","v","2","/">>,
    <<"/","/","p","o","k","e","a","p","i",".","c","o","/","a","p","i","/","v","2">>,
    <<"/","/","h">>,
    <<"/","/","h","/">>,
    <<"/","/","h","/","a","/","b","/","?","k","=","v","#","f">>,
    <<"/","/","h","/","a","?","k","=","v">>,
    <<"h","/","a">>,
    <<>>,
    <<"/","p","/">>,
    <<"/","/","h",":","8","0","8","0","/","x","/">>,
    <<"/","/","h",":","x","/">>,
    <<"/","/","a","+","b","/">>,
    <<"/","/","a",".","1","/">>,
    <<"/","/","1","/","x","/">>,
    <<"/","/">>}
BaseInputs == {sc \o <<":">> \o r : sc \in BaseSchemes, r \in BaseRests} \cup {Ref_not_a_url, <<>>}

\* The smaller inputs of the concurrent specification.
ConcLimits == {None, Some(SmallU32(7))}
ConcOffsets == {None}
ConcSents == {TransportFailure, HttpResponse(404, NotRead), HttpResponse(200, NotRead)}
ConcBodies ==
    {ListBody(<<[url |-> Ref_25, name |-> S_bulbasaur]>>),
     ListBody(<<[url |-> Ref_25, name |-> S_bulbasaur], [url |-> Ref_abc, name |-> S_ivysaur]>>)}
HandleLimits == {None, Some(SmallU32(7))}
HandleOffsets == {None}

(***************************************************************************)
(* State                                                                   *)
(***************************************************************************)
VARIABLES
    baseStr,    \* the base string main hands to Pokedex::new
    pokedex,    \* None before main builds it, then Some(Result<Pokedex, PokedexError>)
    pc,         \* per invocation: "idle", "sending" (suspended in send().await),
                \* "reading" (suspended in json().await), "done"
    args,       \* per invocation: the inbound limit and offset (Option<u32> each)
    request,    \* per invocation: the outbound request it built
    reply,      \* per invocation: what send().await and json().await produced
    response,   \* per invocation: the PokemonListResponse it returned
    gets        \* per invocation: the number of GET requests it has sent, i.e.
                \* the calls of RequestBuilder::send it has made (what the
                \* HTTP client does on the wire within one send() is beneath
                \* the program's code)

vars == <<baseStr, pokedex, pc, args, request, reply, response, gets>>

NoArgs == [limit |-> None, offset |-> None]

InitSlots ==
    /\ pokedex = None
    /\ pc = [i \in Inv |-> "idle"]
    /\ args = [i \in Inv |-> NoArgs]
    /\ request = [i \in Inv |-> None]
    /\ reply = [i \in Inv |-> None]
    /\ response = [i \in Inv |-> None]
    /\ gets = [i \in Inv |-> 0]

\* main: the base is BASE_POKEMONAPI_ADDRESS.
Init == baseStr = BASE_POKEMONAPI_ADDRESS /\ InitSlots

\* Pokedex::new on any base string.
InitNew == baseStr \in BaseInputs /\ InitSlots

(***************************************************************************)
(* Actions                                                                 *)
(***************************************************************************)
\* main: Arc::new(Pokedex::new(BASE_POKEMONAPI_ADDRESS)?).  On Err main
\* returns and no request is ever served.
MainNew ==
    /\ pokedex = None
    /\ pokedex' = Some(PokedexNew(baseStr))
    /\ UNCHANGED <<baseStr, pc, args, request, reply, response, gets>>

\* Api::pokemon up to the first await: the defaults are applied, the request
\* is built from the shared Pokedex and sent.
Call(i, limit, offset) ==
    /\ pokedex # None
    /\ pokedex.v.ok
    /\ pc[i] = "idle"
    /\ LET a == FetchArgs(limit, offset)
       IN  request' = [request EXCEPT ![i] = Some(GetAllPokemonRequest(pokedex.v.v, a.limit, a.offset))]
    /\ args' = [args EXCEPT ![i] = [limit |-> limit, offset |-> offset]]
    /\ gets' = [gets EXCEPT ![i] = @ + 1]
    /\ pc' = [pc EXCEPT ![i] = "sending"]
    /\ UNCHANGED <<baseStr, pokedex, reply, response>>

\* Variant: a failed send is sent once more before the handler responds.
ReplyRetry(i, sent) ==
    /\ pc[i] = "sending"
    /\ IF ~SendResult(sent).ok /\ gets[i] = 1
       THEN /\ gets' = [gets EXCEPT ![i] = @ + 1]
            /\ UNCHANGED <<pc, reply, response>>
       ELSE /\ reply' = [reply EXCEPT ![i] = Some(sent)]
            /\ IF SendResult(sent).ok
               THEN /\ pc' = [pc EXCEPT ![i] = "reading"]
                    /\ UNCHANGED response
               ELSE /\ pc' = [pc EXCEPT ![i] = "done"]
                    /\ response' = [response EXCEPT ![i] = Some(PokemonResponse(SendResult(sent)))]
            /\ UNCHANGED gets
    /\ UNCHANGED <<baseStr, pokedex, args, request>>

\* send().await completes.  On an error, or a status that error_for_status
\* rejects, get_all_pokemon returns Err and Api::pokemon runs to its return;
\* otherwise the invocation suspends again, in json().await.
Reply(i, sent) ==
    /\ pc[i] = "sending"
    /\ reply' = [reply EXCEPT ![i] = Some(sent)]
    /\ IF SendResult(sent).ok
       THEN /\ pc' = [pc EXCEPT ![i] = "reading"]
            /\ UNCHANGED response
       ELSE /\ pc' = [pc EXCEPT ![i] = "done"]
            /\ response' = [response EXCEPT ![i] = Some(PokemonResponse(SendResult(sent)))]
    /\ UNCHANGED <<baseStr, pokedex, args, request, gets>>

\* Variant: the result is kept in one buffer shared by the invocations, so a
\* completion overwrites the response of every invocation not yet returned.
ReadBodyShared(i, body) ==
    /\ pc[i] = "reading"
    /\ reply' = [reply EXCEPT ![i] = Some(HttpResponse(@.v.status, body))]
    /\ response' = [j \in Inv |->
                        IF j = i \/ pc[j] = "done"
                        THEN Some(PokemonResponse(JsonResult(body)))
                        ELSE response[j]]
    /\ pc' = [pc EXCEPT ![i] = "done"]
    /\ UNCHANGED <<baseStr, pokedex, args, request, gets>>

\* json().await completes, and Api::pokemon runs to its return.
ReadBody(i, body) ==
    /\ pc[i] = "reading"
    /\ reply' = [reply EXCEPT ![i] = Some(HttpResponse(@.v.status, body))]
    /\ response' = [response EXCEPT ![i] = Some(PokemonResponse(JsonResult(body)))]
    /\ pc' = [pc EXCEPT ![i] = "done"]
    /\ UNCHANGED <<baseStr, pokedex, args, request, gets>>

\* The framework has written the response; the invocation's locals are gone.
Return(i) ==
    /\ pc[i] = "done"
    /\ pc' = [pc EXCEPT ![i] = "idle"]
    /\ args' = [args EXCEPT ![i] = NoArgs]
    /\ request' = [request EXCEPT ![i] = None]
    /\ reply' = [reply EXCEPT ![i] = None]
    /\ response' = [response EXCEPT ![i] = None]
    /\ gets' = [gets EXCEPT ![i] = 0]
    /\ UNCHANGED <<baseStr, pokedex>>

\* The inbound connection is closed while the invocation is suspended: the
\* framework drops the handler's future, and with it the call in flight.
Cancel(i) ==
    /\ pc[i] \in {"sending", "reading"}
    /\ pc' = [pc EXCEPT ![i] = "idle"]
    /\ args' = [args EXCEPT ![i] = NoArgs]
    /\ request' = [request EXCEPT ![i] = None]
    /\ reply' = [reply EXCEPT ![i] = None]
    /\ response' = [response EXCEPT ![i] = None]
    /\ gets' = [gets EXCEPT ![i] = 0]
    /\ UNCHANGED <<baseStr, pokedex>>

\* The server: any number of invocations in progress at once.
Next ==
    \/ MainNew
    \/ \E i \in Inv, limit \in ConcLimits, offset \in ConcOffsets : Call(i, limit, offset)
    \/ \E i \in Inv : pc[i] = "sending" /\ \E sent \in ConcSents : Reply(i, sent)
    \/ \E i \in Inv : pc[i] = "reading" /\ \E body \in ConcBodies : ReadBody(i, body)
    \/ \E i \in Inv : Return(i)
    \/ \E i \in Inv : Cancel(i)

Spec == Init /\ [][Next]_vars

\* One invocation at a time, over everything send() and json() can produce.
NextHandle ==
    \/ MainNew
    \/ \E limit \in HandleLimits, offset \in HandleOffsets : Call(1, limit, offset)
    \/ pc[1] = "sending" /\ \E sent \in Sents : Reply(1, sent)
    \/ pc[1] = "reading" /\ \E body \in Bodies : ReadBody(1, body)
    \/ Return(1)
    \/ Cancel(1)

SpecHandle == Init /\ [][NextHandle]_vars

\* Construction from any base string, and the request the first invocation
\* issues.
NextNew ==
    \/ MainNew
    \/ \E limit \in Limits, offset \in Offsets : Call(1, limit, offset)

SpecNew == InitNew /\ [][NextNew]_vars


(***************************************************************************)
(* Properties                                                              *)
(***************************************************************************)
Done(i) == pc[i] = "done"
Outcome(i) == reply[i].v
Answer(i) == response[i].v

\* A 2xx response whose body decodes as the list page.
SuccessfulPage(o) == o.kind = "response" /\ o.status \in 200..299 /\ o.body.decodes

\* The last path segment of a reference URL, when it has one.
LastSegmentOf(urlStr) ==
    LET url == UrlParse(urlStr)
    IN  IF url.ok /\ ~url.cannot_be_a_base /\ url.path # <<>> THEN Some(Last(url.path)) ELSE None

Extracts(record) == ExtractPokemon(record).ok

AllDigits(s) == s # <<>> /\ \A k \in DOMAIN s : IsDigit(s[k])

RECURSIVE StripZeros(_)
StripZeros(s) == IF Len(s) > 1 /\ s[1] = "0" THEN StripZeros(From(s, 2)) ELSE s

\* The decimal numeral of the value of a segment: no sign, no leading zeros.
DecimalValue(seg) == StripZeros(IF seg # <<>> /\ seg[1] = "+" THEN From(seg, 2) ELSE seg)

S_u32max == <<"4","2","9","4","9","6","7","2","9","5">>

\* The digit string denotes a number above 4294967295.
ExceedsU32(seg) ==
    /\ AllDigits(seg)
    /\ LET c == StripZeros(seg)
       IN  \/ Len(c) > Len(S_u32max)
           \/ /\ Len(c) = Len(S_u32max)
              /\ \E k \in DOMAIN c :
                    /\ DigitVal(c[k]) > DigitVal(S_u32max[k])
                    /\ \A j \in 1..(k - 1) : c[j] = S_u32max[j]

\* The value of key in a query string key=value&key=value.
QueryParam(q, key) ==
    LET pieces == Split(q, "&")
        hit == CHOOSE k \in DOMAIN pieces : Upto(pieces[k], Len(key) + 1) = key \o <<"=">>
    IN  From(pieces[hit], Len(key) + 2)

Scenario1Page ==
    <<[url |-> Ref_1_slash, name |-> S_bulbasaur], [url |-> Ref_2_slash, name |-> S_ivysaur]>>

\* C1: when the upstream answers 200 with the two records whose URLs end in
\* /pokemon/1/ and /pokemon/2/, the handler answers 200 with
\* [{id 1, bulbasaur}, {id 2, ivysaur}].
C1_TrailingSlashIgnored ==
    \A i \in Inv :
        Done(i) /\ Outcome(i) = HttpResponse(200, ListBody(Scenario1Page))
        => Answer(i) = ResponseOk(<<[id |-> U32(0, 1), name |-> S_bulbasaur],
                                    [id |-> U32(0, 2), name |-> S_ivysaur]>>)

\* C2: for a successful upstream page, the handler answers the 500 response
\* when some record fails extraction, and answers 200 only when every
\* record extracts.
C2_AllOrNothing ==
    \A i \in Inv :
        Done(i) /\ SuccessfulPage(Outcome(i))
        => LET rs == Outcome(i).body.results
           IN  /\ (\E k \in DOMAIN rs : ~Extracts(rs[k])) => Answer(i) = InternalServerError
               /\ Answer(i).status = 200 <=> \A k \in DOMAIN rs : Extracts(rs[k])

C2_Witness ==
    \E i \in Inv :
        /\ Done(i) /\ SuccessfulPage(Outcome(i))
        /\ LET rs == Outcome(i).body.results
           IN  Len(rs) = 2 /\ Extracts(rs[1]) /\ ~Extracts(rs[2])
        /\ Answer(i) = InternalServerError

UpstreamFailure(o) ==
    \/ o.kind = "transport"
    \/ o.kind = "response" /\ (o.status \notin 200..299 \/ ~o.body.decodes)

\* C3 as stated: a transport failure, any status outside 200-299, or an
\* undecodable body makes the handler answer 500 with no body.
C3_AnyNon2xxFails ==
    \A i \in Inv : Done(i) /\ UpstreamFailure(Outcome(i)) => Answer(i) = InternalServerError

\* C3, amended: a transport failure, any status in 400-599, or an undecodable
\* body makes the handler answer the one 500 response with no body.
C3_ErrorStatusFails ==
    \A i \in Inv :
        Done(i) /\ (\/ Outcome(i).kind = "transport"
                    \/ Outcome(i).kind = "response"
                       /\ (Outcome(i).status \in 400..599 \/ ~Outcome(i).body.decodes))
        => Answer(i) = [status |-> 500, body |-> None]

C3_Witness ==
    \E i \in Inv :
        /\ Done(i) /\ Outcome(i) = HttpResponse(404, NotRead)
        /\ Answer(i) = InternalServerError

\* C4: when the fetch succeeds and every record extracts, the handler
\* answers 200 with one item per record, in order, with the record's name
\* and the decimal value of the last path segment of its URL as id.
C4_OrderedItems ==
    \A i \in Inv :
        Done(i) /\ SuccessfulPage(Outcome(i))
        /\ (\A k \in DOMAIN Outcome(i).body.results : Extracts(Outcome(i).body.results[k]))
        => LET rs == Outcome(i).body.results
               items == Answer(i).body.v
           IN  /\ Answer(i).status = 200
               /\ Answer(i).body.some
               /\ Len(items) = Len(rs)
               /\ \A k \in DOMAIN rs :
                     /\ items[k].name = rs[k].name
                     /\ ToDecimal(items[k].id) = DecimalValue(LastSegmentOf(rs[k].url).v)

C4_Witness ==
    \E i \in Inv :
        /\ Done(i) /\ SuccessfulPage(Outcome(i))
        /\ Outcome(i).body.results = <<[url |-> Ref_007, name |-> S_ivysaur],
                                       [url |-> Ref_25, name |-> S_bulbasaur]>>
        /\ Answer(i) = ResponseOk(<<[id |-> U32(0, 7), name |-> S_ivysaur],
                                    [id |-> U32(0, 25), name |-> S_bulbasaur]>>)

\* C5: the request carries limit = 20 when limit is omitted and offset = 0
\* when offset is omitted, each independently, and any supplied value
\* unchanged.
C5_DefaultsAndPassThrough ==
    \A i \in Inv :
        pc[i] # "idle"
        => LET q == request[i].v.url.query.v
           IN  /\ ParseU32(QueryParam(q, S_limit))
                    = [ok |-> TRUE, v |-> IF args[i].limit.some THEN args[i].limit.v ELSE U32(0, 20)]
               /\ ParseU32(QueryParam(q, S_offset))
                    = [ok |-> TRUE, v |-> IF args[i].offset.some THEN args[i].offset.v ELSE U32(0, 0)]

C5_Witness ==
    \E i \in Inv :
        /\ pc[i] = "sending"
        /\ args[i] = [limit |-> None, offset |-> Some(U32Max)]
        /\ request[i].v.url.query = Some(S_limit \o <<"=","2","0","&">> \o S_offset \o <<"=">> \o S_u32max)

\* C6: construction succeeds exactly when the base string parses as a URL
\* that can be a base and whose scheme is http or https; otherwise it fails
\* with InvalidBaseUrl.
C6_ConstructionIff ==
    pokedex # None
    => LET url == UrlParse(baseStr)
       IN  /\ pokedex.v.ok <=> (url.ok /\ ~url.cannot_be_a_base /\ url.scheme \in {S_http, S_https})
           /\ pokedex.v.ok => pokedex.v.v.base = url
           /\ ~pokedex.v.ok => pokedex.v = [ok |-> FALSE, err |-> "InvalidBaseUrl"]

C6_Witness ==
    /\ pokedex # None
    /\ ~pokedex.v.ok
    /\ UrlParse(baseStr).ok
    /\ ~UrlParse(baseStr).cannot_be_a_base
    /\ UrlParse(baseStr).scheme = S_ftp

\* The path segments without a trailing empty segment.
WithoutTrailingEmpty(path) == IF path # <<>> /\ Last(path) = <<>> THEN Front(path) ELSE path

\* C7: for every accepted base, the request is a GET to the base with the
\* segment pokemon appended to all of the base's path segments, with query
\* limit=<limit>&offset=<offset>, whether or not the base path ends in '/'.
C7_AppendsToBase ==
    \A i \in Inv :
        pc[i] # "idle"
        => LET b == pokedex.v.v.base
               r == request[i].v
               a == FetchArgs(args[i].limit, args[i].offset)
           IN  /\ r.method = "GET"
               /\ r.url.scheme = b.scheme /\ r.url.host = b.host /\ r.url.port = b.port
               /\ r.url.path = WithoutTrailingEmpty(b.path) \o <<S_pokemon>>
               /\ r.url.query = Some(S_limit \o <<"=">> \o ToDecimal(a.limit) \o <<"&">>
                                     \o S_offset \o <<"=">> \o ToDecimal(a.offset))

\* C8: an invocation issues exactly one upstream GET (one call of send())
\* before it responds: it has sent none while idle and one from its call on;
\* once sent, no further GET is sent for it, whether the attempt failed or
\* not (no retry); and an invocation starts by sending its own GET, whatever
\* earlier invocations with the same limit/offset received (no caching).
C8_OneGetPerInvocation ==
    /\ [](\A i \in Inv :
            /\ pc[i] = "idle" => gets[i] = 0
            /\ pc[i] # "idle" => gets[i] = 1 /\ request[i] # None)
    /\ [][\A i \in Inv :
            /\ pc[i] = "idle" /\ pc'[i] # "idle" => pc'[i] = "sending" /\ gets'[i] = 1
            /\ pc[i] # "idle" /\ pc'[i] # "idle" => gets'[i] = gets[i]]_vars

\* Two invocations with the same limit/offset have both responded, one after
\* a failed attempt: each has sent its own GET, once.
C8_Witness ==
    \E i, j \in Inv :
        /\ i # j /\ Done(i) /\ Done(j)
        /\ args[i] = args[j] /\ request[i] = request[j]
        /\ Outcome(i).kind = "transport"
        /\ Answer(i) = InternalServerError
        /\ gets[i] = 1 /\ gets[j] = 1

\* C9: the client is never changed once built; a step changes the state of
\* one invocation only, and never the arguments and request of an invocation
\* in flight; and two invocations with the same limit/offset and the same
\* upstream outcome give the same response.
C9_Isolation ==
    /\ [][pokedex # None => pokedex' = pokedex]_vars
    /\ [][\A i, j \in Inv :
            i # j /\ <<pc'[i], args'[i], request'[i], reply'[i], response'[i]>>
                        # <<pc[i], args[i], request[i], reply[i], response[i]>>
            => <<pc'[j], args'[j], request'[j], reply'[j], response'[j]>>
                 = <<pc[j], args[j], request[j], reply[j], response[j]>>]_vars
    /\ [][\A i \in Inv :
            pc[i] \in {"sending", "reading"} /\ pc'[i] # "idle"
            => request'[i] = request[i] /\ args'[i] = args[i]]_vars
    /\ [](\A i, j \in Inv :
            Done(i) /\ Done(j) /\ args[i] = args[j] /\ reply[i] = reply[j]
            => response[i] = response[j])

C9_Witness ==
    \E i, j \in Inv :
        /\ Done(i) /\ Answer(i).status = 500
        /\ Done(j) /\ Answer(j).status = 200
        /\ args[i] = args[j]

\* C10: a record whose last path segment is a digit string above 4294967295
\* makes the handler answer 500, and every id of a 200 response is a u32
\* whose decimal numeral is the value of that segment.
C10_NoWrap ==
    \A i \in Inv :
        Done(i) /\ SuccessfulPage(Outcome(i))
        => LET rs == Outcome(i).body.results
           IN  /\ (\E k \in DOMAIN rs :
                      LastSegmentOf(rs[k].url).some /\ ExceedsU32(LastSegmentOf(rs[k].url).v))
                  => Answer(i) = InternalServerError
               /\ Answer(i).status = 200
                  => \A k \in DOMAIN Answer(i).body.v :
                        /\ IsU32(Answer(i).body.v[k].id)
                        /\ ~ExceedsU32(LastSegmentOf(rs[k].url).v)

C10_Witness ==
    \E i \in Inv :
        /\ Done(i) /\ SuccessfulPage(Outcome(i))
        /\ Outcome(i).body.results = <<[url |-> Ref_u32max, name |-> S_bulbasaur],
                                       [url |-> Ref_u32over, name |-> S_ivysaur]>>
        /\ Answer(i) = InternalServerError

=============================================================================
